---- MODULE Spec2Model ----
(***************************************************************************)
(* A model of cgmerger (src/cgmerger/cgmerge.py): one run of main().       *)
(*                                                                         *)
(* Text is modelled as sequences of one-character strings, so that         *)
(* str.split, os.path.join, str.ljust, int() and re.search are computed    *)
(* rather than assumed.  A file is a sequence of lines (each line without  *)
(* its terminating newline); the output file is the sequence of lines      *)
(* written to it.                                                          *)
(*                                                                         *)
(* Not modelled: the detection of a file's encoding (chardet on its first  *)
(* 32 bytes), what log_values prints, and a pattern or a settings file     *)
(* that does not parse.                                                    *)
(***************************************************************************)
EXTENDS Integers, Sequences, FiniteSets, TLC

VARIABLES
    arguments,  \* parser.parse_args(): the Namespace of the command line
    conf,       \* cgmerger.conf on disk: [exists, values, writes]
    config,     \* the module-level ConfigParser, section "merger"
    fs,         \* the file system the run sees
    pc,         \* position of the run inside main()
    loc,        \* main()'s locals returned by get_parameters_from_config()
    i,          \* index of the running for loop
    out,        \* the output file: [opens, content]
    calls,      \* history: every write_to_output_file call made so far
    result      \* how the process ended: [kind, path]

vars == <<arguments, conf, config, fs, pc, loc, i, out, calls, result>>

----------------------------------------------------------------------------
(* Bounds of the model.                                                    *)

MaxOrderLen == 2
MaxLines == 2
MaxOverrides == 2

----------------------------------------------------------------------------
(* Text.                                                                   *)

\* Python's None, as a value of the same shape as a text.
None == <<"None">>

Empty == <<>>

DefaultOutput == <<"c","o","d","i","n","g","a","m","e",".","v","o","l","a","t","i","l","e",".","p","y">>
DefaultWorkdir == <<"c","o","d","i","n","g","a","m","e","/">>
DefaultFileRegex == <<".","*">>
DefaultExcludeLineRegex == <<"^","f","r","o","m"," ","c","o","d","i","n","g","a","m","e","\\",".","|","^","i","m","p","o","r","t"," ","c","o","d","i","n","g","a","m","e","|","^","f","r","o","m"," ","\\",".","|","^","i","m","p","o","r","t"," ","\\",".">>
DefaultComment == <<"#">>
DefaultSeparatorStart == <<"-">>
DefaultSeparatorEnd == <<"=">>
DefaultSeparatorLength == <<"8","0">>

Keys ==
    {"output", "workdir", "order", "header", "footer", "comment",
     "separator_start", "separator_end", "separator_length",
     "file_regex", "exclude_line_regex"}

\* The defaults= of the ConfigParser; an option that is not set is None.
ConfigDefaults ==
    [k \in Keys |->
        CASE k = "output" -> DefaultOutput
          [] k = "workdir" -> DefaultWorkdir
          [] k = "file_regex" -> DefaultFileRegex
          [] k = "exclude_line_regex" -> DefaultExcludeLineRegex
          [] k = "comment" -> DefaultComment
          [] k = "separator_start" -> DefaultSeparatorStart
          [] k = "separator_end" -> DefaultSeparatorEnd
          [] k = "separator_length" -> DefaultSeparatorLength
          [] OTHER -> None]

Max(a, b) == IF a >= b THEN a ELSE b

\* str.split(sep) for a one-character separator.
RECURSIVE SplitFrom(_, _, _, _)
SplitFrom(s, sep, k, cur) ==
    IF k > Len(s) THEN <<cur>>
    ELSE IF s[k] = sep THEN <<cur>> \o SplitFrom(s, sep, k + 1, Empty)
    ELSE SplitFrom(s, sep, k + 1, Append(cur, s[k]))

Split(s, sep) == SplitFrom(s, sep, 1, Empty)

\* os.path.join(a, b) on POSIX, for two components.
Join(a, b) ==
    IF Len(b) > 0 /\ b[1] = "/" THEN b
    ELSE IF Len(a) = 0 \/ a[Len(a)] = "/" THEN a \o b
    ELSE a \o <<"/">> \o b

\* A padding that also cuts a text longer than the width.
Ljust_Truncating(s, width, fillchar) ==
    IF width <= Len(s) THEN SubSeq(s, 1, Max(width, 0))
    ELSE s \o [k \in 1..(width - Len(s)) |-> fillchar]

\* str.ljust(width, fillchar).
Ljust(s, width, fillchar) ==
    IF width <= Len(s) THEN s
    ELSE s \o [k \in 1..(width - Len(s)) |-> fillchar]

Digits == {"0", "1", "2", "3", "4", "5", "6", "7", "8", "9"}

DigitValue(c) ==
    CASE c = "0" -> 0 [] c = "1" -> 1 [] c = "2" -> 2 [] c = "3" -> 3
      [] c = "4" -> 4 [] c = "5" -> 5 [] c = "6" -> 6 [] c = "7" -> 7
      [] c = "8" -> 8 [] c = "9" -> 9

\* Whether int(s) succeeds, for decimal literals with an optional sign.
IsInt(s) ==
    LET body == IF Len(s) > 0 /\ s[1] \in {"-", "+"} THEN Tail(s) ELSE s
    IN Len(body) > 0 /\ \A k \in 1..Len(body) : body[k] \in Digits

RECURSIVE DecimalValue(_)
DecimalValue(s) ==
    IF Len(s) = 0 THEN 0
    ELSE 10 * DecimalValue(SubSeq(s, 1, Len(s) - 1)) + DigitValue(s[Len(s)])

\* int(s), where IsInt(s).
ToInt(s) ==
    IF s[1] = "-" THEN 0 - DecimalValue(Tail(s))
    ELSE IF s[1] = "+" THEN DecimalValue(Tail(s))
    ELSE DecimalValue(s)

----------------------------------------------------------------------------
(* Regular expressions: the part of Python's re syntax the program's       *)
(* defaults and the inputs of this model use: literal characters, "\c",   *)
(* ".", a postfix "*", "^" at the start and "$" at the end of an           *)
(* alternative, and top-level "|".                                         *)

\* The alternatives of a pattern: split on every "|" that is not escaped.
RECURSIVE AlternativesFrom(_, _, _)
AlternativesFrom(p, k, cur) ==
    IF k > Len(p) THEN <<cur>>
    ELSE IF p[k] = "\\" /\ k < Len(p)
        THEN AlternativesFrom(p, k + 2, cur \o <<p[k], p[k + 1]>>)
    ELSE IF p[k] = "|" THEN <<cur>> \o AlternativesFrom(p, k + 1, Empty)
    ELSE AlternativesFrom(p, k + 1, Append(cur, p[k]))

\* The atoms of one alternative from position k on: a character (or any
\* character, or the end of the text), possibly starred.
RECURSIVE AtomsFrom(_, _)
AtomsFrom(p, k) ==
    IF k > Len(p) THEN <<>>
    ELSE LET esc == p[k] = "\\" /\ k < Len(p)
             n == IF esc THEN k + 2 ELSE k + 1
             star == n <= Len(p) /\ p[n] = "*"
             atom == [ch |-> IF esc THEN p[k + 1] ELSE p[k],
                      any |-> ~esc /\ p[k] = ".",
                      eol |-> ~esc /\ p[k] = "$" /\ k = Len(p),
                      star |-> star]
         IN <<atom>> \o AtomsFrom(p, IF star THEN n + 1 ELSE n)

\* Whether atoms[k..] match a prefix of text[j..].
RECURSIVE MatchHere(_, _, _, _)
MatchHere(atoms, k, text, j) ==
    IF k > Len(atoms) THEN TRUE
    ELSE LET a == atoms[k]
             hit(q) == q <= Len(text) /\ (a.any \/ text[q] = a.ch)
         IN IF a.eol THEN j = Len(text) + 1
            ELSE IF a.star
                 THEN \E n \in 0..(Len(text) + 1 - j) :
                          /\ \A q \in j..(j + n - 1) : hit(q)
                          /\ MatchHere(atoms, k + 1, text, j + n)
                 ELSE hit(j) /\ MatchHere(atoms, k + 1, text, j + 1)

\* re.compile(p).search(text) is not None.
Search(p, text) ==
    LET alts == AlternativesFrom(p, 1, Empty)
    IN \E n \in 1..Len(alts) :
           LET alt == alts[n]
               anchored == Len(alt) > 0 /\ alt[1] = "^"
               atoms == AtomsFrom(alt, IF anchored THEN 2 ELSE 1)
           IN IF anchored THEN MatchHere(atoms, 1, text, 1)
              ELSE \E j \in 1..(Len(text) + 1) : MatchHere(atoms, 1, text, j)

----------------------------------------------------------------------------
(* The file system.  fs.top gives the kind of each path the output and the *)
(* working directory may resolve to; fs.entries the kind of each name      *)
(* inside a working directory; fs.listing the order in which os.listdir    *)
(* returns the names present; fs.lines the content of each name.           *)

Kinds == {"absent", "file", "dir"}

CustomOutput == <<"o",".","p","y">>
CustomWorkdir == <<"w","d">>
NameA == <<"a",".","p","y">>
NameB == <<"b",".","t","x","t">>
NameH == <<"h",".","p","y">>

Names == {NameA, NameB, NameH}
WorkDirs == {DefaultWorkdir, CustomWorkdir}
TopPaths == {DefaultOutput, CustomOutput} \cup WorkDirs

\* What os.stat finds at path p.
PathKind(fsys, p) ==
    IF p \in TopPaths THEN fsys.top[p]
    ELSE IF \E d \in WorkDirs : fsys.top[d] = "dir" /\ p = Join(d, Empty) THEN "dir"
    ELSE IF \E d \in WorkDirs, n \in Names : fsys.top[d] = "dir" /\ p = Join(d, n)
        THEN fsys.entries[CHOOSE n \in Names : \E d \in WorkDirs : p = Join(d, n)]
    ELSE "absent"

\* current_file.readlines() of the regular file at path p.
ReadLines(fsys, p) ==
    fsys.lines[CHOOSE n \in Names : \E d \in WorkDirs : p = Join(d, n)]

----------------------------------------------------------------------------
(* check_file_exists, check_workdir_exists: what parser.error reports.     *)

NoError == [kind |-> "none", path |-> None]

CheckFileExists(fsys, file_path) ==
    IF PathKind(fsys, file_path) = "absent"
    THEN [kind |-> "no_file", path |-> file_path]
    ELSE NoError

CheckWorkdirExists(fsys, cfg) ==
    IF PathKind(fsys, cfg["workdir"]) # "dir"
    THEN [kind |-> "no_directory", path |-> cfg["workdir"]]
    ELSE NoError

----------------------------------------------------------------------------
(* write_to_output_file: the lines it writes and the exception, if any,    *)
(* that ends it.                                                           *)

FilePrefix == <<" ","f","i","l","e"," ","\"">>
EndPrefix == <<" ","e","n","d"," ","o","f"," ","f","i","l","e"," ","\"">>
Quote == <<"\""," ">>

\* The exception raised while padding a banner, or "none": int() of the
\* separator length is evaluated before the separator is indexed.
PadError(length, separator) ==
    IF ~IsInt(length) THEN "ValueError"
    ELSE IF Len(separator) = 0 THEN "IndexError"
    ELSE "none"

StartFileComment(cfg, file_name) ==
    Ljust(cfg["comment"] \o FilePrefix \o file_name \o Quote,
          ToInt(cfg["separator_length"]), cfg["separator_start"][1])

EndFileComment(cfg, file_name) ==
    Ljust(cfg["comment"] \o EndPrefix \o file_name \o Quote,
          ToInt(cfg["separator_length"]), cfg["separator_end"][1])

\* re.compile(p).match(text) is not None: a match at the start of the text.
Match(p, text) ==
    LET alts == AlternativesFrom(p, 1, Empty)
    IN \E n \in 1..Len(alts) :
           LET alt == alts[n]
               anchored == Len(alt) > 0 /\ alt[1] = "^"
           IN MatchHere(AtomsFrom(alt, IF anchored THEN 2 ELSE 1), 1, text, 1)

\* A filter that looks for the pattern at the start of the line only.
KeptLines_Match(lines, exclude_line_regex, ignore_regex) ==
    LET Keep(line) == ignore_regex \/ ~Match(exclude_line_regex, line)
    IN SelectSeq(lines, Keep)

\* The lines of the file that the loop over readlines() writes.
KeptLines(lines, exclude_line_regex, ignore_regex) ==
    LET Keep(line) == ignore_regex \/ ~Search(exclude_line_regex, line)
    IN SelectSeq(lines, Keep)

WriteToOutputFile(cfg, fsys, file_name, exclude_line_regex, disable_headers, ignore_regex) ==
    LET kind == PathKind(fsys, file_name)
        kept == KeptLines(ReadLines(fsys, file_name), exclude_line_regex, ignore_regex)
        startError == PadError(cfg["separator_length"], cfg["separator_start"])
        endError == PadError(cfg["separator_length"], cfg["separator_end"])
        start == <<Empty, StartFileComment(cfg, file_name)>>
        end == <<Empty, Empty, Empty, EndFileComment(cfg, file_name)>>
    IN IF kind = "absent" THEN [written |-> <<>>, exc |-> "FileNotFoundError"]
       ELSE IF kind = "dir" THEN [written |-> <<>>, exc |-> "IsADirectoryError"]
       ELSE IF disable_headers THEN [written |-> kept, exc |-> "none"]
       ELSE IF startError # "none" THEN [written |-> <<>>, exc |-> startError]
       ELSE IF endError # "none" THEN [written |-> start \o kept, exc |-> endError]
       ELSE [written |-> start \o kept \o end, exc |-> "none"]

----------------------------------------------------------------------------
(* copy_parser_arguments_to_config.                                        *)

\* config["merger"][key] = value: a value that is not a string raises.
SetOption(c, key, value) ==
    IF c.exc # "none" THEN c
    ELSE IF value = None THEN [c EXCEPT !.exc = "TypeError"]
    ELSE [c EXCEPT !.config[key] = value]

\* if arguments.<argument> is not None: config["merger"][key] = value
CopyIf(c, argument, key, value) ==
    IF c.exc = "none" /\ argument # None THEN SetOption(c, key, value) ELSE c

CopyParserArgumentsToConfig(cfg, args) ==
    LET c0 == [config |-> cfg, exc |-> "none"]
        c1 == CopyIf(c0, args["file_regex"], "file_regex", args["file_regex"])
        c2 == CopyIf(c1, args["exclude_line_regex"], "exclude_line_regex", args["exclude_line_regex"])
        c3 == CopyIf(c2, args["output"], "output", args["output"])
        c4 == CopyIf(c3, args["workdir"], "workdir", args["workdir"])
        c5 == CopyIf(c4, args["header"], "header", args["header"])
        c6 == CopyIf(c5, args["footer"], "footer", args["header"])
        c7 == CopyIf(c6, args["comment"], "comment", args["comment"])
    IN CopyIf(c7, args["order"], "order", args["order"])

----------------------------------------------------------------------------
(* get_parameters_from_config.                                             *)

\* order = None
NoOrder == <<None>>

NoLocals ==
    [order |-> NoOrder, output_file_location |-> None, work_dir |-> None,
     file_regex |-> None, exclude_line_regex |-> None, header_file |-> None,
     footer_file |-> None, files_to_watch |-> <<>>]

\* The checks with the working directory checked before the output file.
ParameterChecks_WorkdirFirst(cfg, fsys, order) ==
    <<CheckWorkdirExists(fsys, cfg), CheckFileExists(fsys, cfg["output"])>>
    \o (IF order = NoOrder THEN <<>>
        ELSE [k \in 1..Len(order) |->
                 CheckFileExists(fsys, Join(cfg["workdir"], order[k]))])
    \o (IF cfg["header"] = None THEN <<>>
        ELSE <<CheckFileExists(fsys, Join(cfg["workdir"], cfg["header"]))>>)
    \o (IF cfg["footer"] = None THEN <<>>
        ELSE <<CheckFileExists(fsys, Join(cfg["workdir"], cfg["footer"]))>>)

\* The checks in the order the function makes them.
ParameterChecks(cfg, fsys, order) ==
    <<CheckFileExists(fsys, cfg["output"]), CheckWorkdirExists(fsys, cfg)>>
    \o (IF order = NoOrder THEN <<>>
        ELSE [k \in 1..Len(order) |->
                 CheckFileExists(fsys, Join(cfg["workdir"], order[k]))])
    \o (IF cfg["header"] = None THEN <<>>
        ELSE <<CheckFileExists(fsys, Join(cfg["workdir"], cfg["header"]))>>)
    \o (IF cfg["footer"] = None THEN <<>>
        ELSE <<CheckFileExists(fsys, Join(cfg["workdir"], cfg["footer"]))>>)

\* The regular files in the reverse of the order os.listdir gives.
ListFiles_Reversed(fsys, work_dir) ==
    LET IsFile(f) == PathKind(fsys, Join(work_dir, f)) = "file"
        files == SelectSeq(fsys.listing, IsFile)
    IN [k \in 1..Len(files) |-> files[Len(files) + 1 - k]]

\* [f for f in os.listdir(work_dir) if os.path.isfile(os.path.join(work_dir, f))]
ListFiles(fsys, work_dir) ==
    LET IsFile(f) == PathKind(fsys, Join(work_dir, f)) = "file"
    IN SelectSeq(fsys.listing, IsFile)

GetParametersFromConfig(cfg, fsys) ==
    LET order == IF cfg["order"] = None THEN NoOrder ELSE Split(cfg["order"], ",")
        checks == ParameterChecks(cfg, fsys, order)
        failed == {k \in 1..Len(checks) : checks[k] # NoError}
    IN IF failed # {}
       THEN [error |-> checks[CHOOSE k \in failed : \A m \in failed : k <= m],
             locals |-> NoLocals]
       ELSE [error |-> NoError,
             locals |->
                 [order |-> order,
                  output_file_location |-> cfg["output"],
                  work_dir |-> cfg["workdir"],
                  file_regex |-> cfg["file_regex"],
                  exclude_line_regex |-> cfg["exclude_line_regex"],
                  header_file |-> cfg["header"],
                  footer_file |-> cfg["footer"],
                  files_to_watch |-> ListFiles(fsys, cfg["workdir"])]]

----------------------------------------------------------------------------
(* main().                                                                 *)

Exit(kind, path) == [kind |-> kind, path |-> path]

Running == [kind |-> "running", path |-> None]

\* One write_to_output_file call made by main: the output grows by what the
\* call wrote, and an exception ends the run where it is raised.
Call(file_name, disable_headers, ignore_regex, nextPc, nextI, nextResult) ==
    LET w == WriteToOutputFile(config, fs, file_name, loc.exclude_line_regex,
                               disable_headers, ignore_regex)
    IN /\ out' = [out EXCEPT !.content = @ \o w.written]
       /\ calls' = Append(calls, [file_name |-> file_name,
                                  disable_headers |-> disable_headers,
                                  ignore_regex |-> ignore_regex,
                                  written |-> w.written,
                                  exc |-> w.exc])
       /\ IF w.exc = "none"
          THEN pc' = nextPc /\ i' = nextI /\ result' = nextResult
          ELSE pc' = "done" /\ i' = i /\ result' = Exit(w.exc, file_name)

\* if os.path.exists("cgmerger.conf"): config.read("cgmerger.conf")
ReadConfig ==
    /\ pc = "start"
    /\ config' = IF conf.exists
                 THEN [k \in Keys |-> IF conf.values[k] # None
                                      THEN conf.values[k] ELSE config[k]]
                 ELSE config
    /\ pc' = "copy"
    /\ UNCHANGED <<arguments, conf, fs, loc, i, out, calls, result>>

\* copy_parser_arguments_to_config(arguments)
CopyArguments ==
    /\ pc = "copy"
    /\ LET c == CopyParserArgumentsToConfig(config, arguments.opts)
       IN /\ config' = c.config
          /\ IF c.exc = "none"
             THEN pc' = "debug" /\ result' = result
             ELSE pc' = "done" /\ result' = Exit(c.exc, None)
    /\ UNCHANGED <<arguments, conf, fs, loc, i, out, calls>>

\* if arguments.debug: log_values(); parser.exit(...)
Debug ==
    /\ pc = "debug"
    /\ IF arguments.debug
       THEN pc' = "done" /\ result' = Exit("exit_0", None)
       ELSE pc' = "write" /\ result' = result
    /\ UNCHANGED <<arguments, conf, config, fs, loc, i, out, calls>>

\* if arguments.write: config.write(config_file); log_values(); parser.exit(...)
WriteSettings ==
    /\ pc = "write"
    /\ IF arguments.write
       THEN /\ conf' = [exists |-> TRUE, values |-> config, writes |-> conf.writes + 1]
            /\ pc' = "done" /\ result' = Exit("exit_0", None)
       ELSE /\ conf' = conf
            /\ pc' = "parameters" /\ result' = result
    /\ UNCHANGED <<arguments, config, fs, loc, i, out, calls>>

\* (...) = get_parameters_from_config()
GetParameters ==
    /\ pc = "parameters"
    /\ LET p == GetParametersFromConfig(config, fs)
       IN /\ loc' = p.locals
          /\ IF p.error = NoError
             THEN pc' = "open" /\ result' = result
             ELSE pc' = "done" /\ result' = p.error
    /\ UNCHANGED <<arguments, conf, config, fs, i, out, calls>>

\* with open(output_file_location, "w") as output_file:
OpenOutput ==
    /\ pc = "open"
    /\ IF PathKind(fs, loc.output_file_location) = "dir"
       THEN /\ pc' = "done" /\ out' = out
            /\ result' = Exit("IsADirectoryError", loc.output_file_location)
       ELSE /\ pc' = "header" /\ result' = result
            /\ out' = [opens |-> out.opens + 1, content |-> <<>>]
    /\ UNCHANGED <<arguments, conf, config, fs, loc, i, calls>>

\* if header_file is not None: write_to_output_file(..., disable_headers=True, ignore_regex=True)
EmitHeader ==
    /\ pc = "header"
    /\ IF loc.header_file # None
       THEN Call(Join(loc.work_dir, loc.header_file), TRUE, TRUE, "ordered", 1, result)
       ELSE /\ pc' = "ordered" /\ i' = 1
            /\ UNCHANGED <<out, calls, result>>
    /\ UNCHANGED <<arguments, conf, config, fs, loc>>

\* A loop that skips the header and forgets the footer.
IsHeaderOrFooter_HeaderOnly(f, header_file, footer_file) ==
    f = header_file

\* if f == header_file: continue / if f == footer_file: continue
IsHeaderOrFooter(f, header_file, footer_file) ==
    f = header_file \/ f = footer_file

\* for f in order: one iteration
EmitOrdered ==
    /\ pc = "ordered"
    /\ loc.order # NoOrder /\ i <= Len(loc.order)
    /\ LET f == loc.order[i]
       IN IF IsHeaderOrFooter(f, loc.header_file, loc.footer_file)
          THEN /\ pc' = pc /\ i' = i + 1
               /\ UNCHANGED <<out, calls, result>>
          ELSE Call(Join(loc.work_dir, f), FALSE, FALSE, pc, i + 1, result)
    /\ UNCHANGED <<arguments, conf, config, fs, loc>>

\* the loop over order is over, or order is None
EndOrdered ==
    /\ pc = "ordered"
    /\ loc.order = NoOrder \/ i > Len(loc.order)
    /\ pc' = "unordered" /\ i' = 1
    /\ UNCHANGED <<arguments, conf, config, fs, loc, out, calls, result>>

\* A loop over the listing that does not skip the files of the order.
InOrder_Never(f, order) == FALSE

\* order is not None and f in order
InOrder(f, order) == order # NoOrder /\ \E k \in 1..Len(order) : order[k] = f

\* for f in files_to_watch: one iteration
EmitUnordered ==
    /\ pc = "unordered"
    /\ i <= Len(loc.files_to_watch)
    /\ LET f == loc.files_to_watch[i]
       IN IF \/ InOrder(f, loc.order)
             \/ IsHeaderOrFooter(f, loc.header_file, loc.footer_file)
             \/ ~Search(loc.file_regex, f)
          THEN /\ pc' = pc /\ i' = i + 1
               /\ UNCHANGED <<out, calls, result>>
          ELSE Call(Join(loc.work_dir, f), FALSE, FALSE, pc, i + 1, result)
    /\ UNCHANGED <<arguments, conf, config, fs, loc>>

EndUnordered ==
    /\ pc = "unordered"
    /\ i > Len(loc.files_to_watch)
    /\ pc' = "footer" /\ i' = i
    /\ UNCHANGED <<arguments, conf, config, fs, loc, out, calls, result>>

\* if footer_file is not None: write_to_output_file(..., disable_headers=True)
EmitFooter ==
    /\ pc = "footer"
    /\ IF loc.footer_file # None
       THEN Call(Join(loc.work_dir, loc.footer_file), TRUE, FALSE, "done", i,
                 Exit("returned", None))
       ELSE /\ pc' = "done" /\ i' = i /\ result' = Exit("returned", None)
            /\ UNCHANGED <<out, calls>>
    /\ UNCHANGED <<arguments, conf, config, fs, loc>>

Next ==
    \/ ReadConfig
    \/ CopyArguments
    \/ Debug
    \/ WriteSettings
    \/ GetParameters
    \/ OpenOutput
    \/ EmitHeader
    \/ EmitOrdered
    \/ EndOrdered
    \/ EmitUnordered
    \/ EndUnordered
    \/ EmitFooter

----------------------------------------------------------------------------
(* The runs that are checked.  Every run starts before main()'s first      *)
(* statement; what varies is the command line, cgmerger.conf and the file  *)
(* system.  Each family below varies the inputs of one stage of the run    *)
(* and keeps the others at a fixed value.                                  *)

PyRegex == <<"\\",".","p","y">>
ImportRegex == <<"i","m","p","o","r","t">>
EdgeRegex == <<"^","x","|","b","$">>
LineFrom == <<"f","r","o","m"," ",".","a">>
LineCode == <<"x","=","1">>
LineIndented == <<" ","i","m","p","o","r","t"," ",".","b">>
LineImport == <<"i","m","p","o","r","t"," ",".","b">>
LineOld == <<"o","l","d">>

LineSamples == {LineFrom, LineCode, LineIndented, LineImport}

\* All sequences over S of a length from lo to hi.
SeqsOf(S, lo, hi) == UNION {[1..n -> S] : n \in lo..hi}

\* The orders in which os.listdir may return the names in S.
Listings(S) ==
    {l \in [1..Cardinality(S) -> S] : \A a, b \in 1..Cardinality(S) : l[a] = l[b] => a = b}

\* ",".join(names)
RECURSIVE JoinComma(_)
JoinComma(names) ==
    IF Len(names) = 0 THEN Empty
    ELSE IF Len(names) = 1 THEN names[1]
    ELSE names[1] \o <<",">> \o JoinComma(Tail(names))

NoOptions == [k \in Keys |-> None]

NoConf == [exists |-> FALSE, values |-> NoOptions, writes |-> 0]

\* A value for each command-line option, different from its default.
CustomValue ==
    [k \in Keys |->
        CASE k = "output" -> CustomOutput
          [] k = "workdir" -> CustomWorkdir
          [] k = "order" -> JoinComma(<<NameH, NameA>>)
          [] k = "header" -> NameH
          [] k = "footer" -> NameB
          [] k = "comment" -> <<"/","/">>
          [] k = "separator_start" -> <<"*">>
          [] k = "separator_end" -> <<"~">>
          [] k = "separator_length" -> <<"4","0">>
          [] k = "file_regex" -> PyRegex
          [] k = "exclude_line_regex" -> ImportRegex]

\* The settings files of the configuration family.
ConfSamples ==
    {NoConf,
     [exists |-> TRUE, values |-> NoOptions, writes |-> 0],
     [exists |-> TRUE, writes |-> 0,
      values |-> [NoOptions EXCEPT !["footer"] = NameA,
                                   !["separator_length"] = <<"8">>,
                                   !["separator_start"] = <<"+","-">>,
                                   !["comment"] = <<";">>]],
     [exists |-> TRUE, writes |-> 0,
      values |-> [NoOptions EXCEPT !["output"] = CustomOutput,
                                   !["header"] = NameA,
                                   !["separator_length"] = <<"3","0">>,
                                   !["separator_end"] = <<"~">>]],
     [exists |-> TRUE, writes |-> 0, values |-> [NoOptions EXCEPT !["separator_end"] = Empty]],
     [exists |-> TRUE, writes |-> 0, values |-> [NoOptions EXCEPT !["separator_length"] = <<"x">>]]}

ValidTop ==
    [p \in TopPaths |-> IF p \in WorkDirs THEN "dir" ELSE "file"]

StdLines == [n \in Names |-> <<LineFrom, LineCode>>]

StdFs ==
    [top |-> ValidTop,
     entries |-> [n \in Names |-> "file"],
     listing |-> <<NameA, NameB, NameH>>,
     lines |-> StdLines]

Start(args, debug, write, settings, fsys) ==
    /\ arguments = [opts |-> args, debug |-> debug, write |-> write]
    /\ conf = settings
    /\ config = ConfigDefaults
    /\ fs = fsys
    /\ pc = "start"
    /\ loc = NoLocals
    /\ i = 0
    /\ out = [opens |-> 0, content |-> <<LineOld>>]
    /\ calls = <<>>
    /\ result = Running

\* The output and the working directory: present or not, default or
\* overridden, in every mode of the run, without --order or with --order "".
InitTop ==
    \E o \in {None, CustomOutput}, w \in {None, CustomWorkdir},
       ord \in {None, Empty}, debug, write \in BOOLEAN, top \in [TopPaths -> Kinds] :
        Start([NoOptions EXCEPT !["output"] = o, !["workdir"] = w, !["order"] = ord],
              debug, write, NoConf, [StdFs EXCEPT !.top = top])

\* The three layers of the configuration: at most MaxOverrides options on
\* the command line, over each settings file, in every mode of the run.
InitConfig ==
    \E given \in {g \in SUBSET Keys : Cardinality(g) <= MaxOverrides},
       settings \in ConfSamples, debug, write \in BOOLEAN :
        Start([k \in Keys |-> IF k \in given THEN CustomValue[k] ELSE None],
              debug, write, settings, StdFs)

\* The content of the working directory, the order, the header and the
\* footer of a merge.  The regular files are listed in every order; the
\* subdirectories, which no loop of main looks at, follow them.
InitPlan ==
    \E names \in SeqsOf(Names, 0, MaxOrderLen),
       re \in {None, PyRegex},
       hf \in {<<None, None>>, <<NameH, None>>, <<None, NameH>>,
               <<NameH, NameH>>, <<NameH, NameB>>},
       entries \in [Names -> Kinds] :
        \E files \in Listings({n \in Names : entries[n] = "file"}) :
            LET IsDir(n) == entries[n] = "dir"
                listing == files \o SelectSeq(<<NameA, NameB, NameH>>, IsDir)
            IN
            Start([NoOptions EXCEPT
                      !["order"] = IF Len(names) = 0 THEN None ELSE JoinComma(names),
                      !["file_regex"] = re],
                  FALSE, FALSE,
                  [exists |-> TRUE, writes |-> 0,
                   values |-> [NoOptions EXCEPT !["header"] = hf[1], !["footer"] = hf[2]]],
                  [StdFs EXCEPT !.entries = entries, !.listing = listing])

\* The lines of the files and the pattern that excludes lines.
InitText ==
    \E lines \in SeqsOf(LineSamples, 0, MaxLines),
       re \in {None, ImportRegex, EdgeRegex} :
        Start([NoOptions EXCEPT !["exclude_line_regex"] = re, !["header"] = NameH],
              FALSE, FALSE,
              [exists |-> TRUE, writes |-> 0, values |-> [NoOptions EXCEPT !["footer"] = NameB]],
              [StdFs EXCEPT !.lines = [n \in Names |-> lines]])

Init == InitTop \/ InitConfig \/ InitPlan \/ InitText

Spec == Init /\ [][Next]_vars

----------------------------------------------------------------------------
(* Properties.                                                             *)

MergeRun == ~arguments.debug /\ ~arguments.write

\* main() ran to its end: the merge is complete.
Returned == pc = "done" /\ result.kind = "returned"

WorkDir == config["workdir"]

\* explicitOrder: the names of the order option, none when it is not set.
ExplicitOrder ==
    IF config["order"] = None THEN <<>> ELSE Split(config["order"], ",")

\* How many times name n is listed in explicitOrder.
Listed(n) == Cardinality({k \in 1..Len(ExplicitOrder) : ExplicitOrder[k] = n})

\* The name, inside the working directory, of the file at path p.
BareName(p) ==
    CHOOSE n \in Names \cup {Empty} : \E d \in WorkDirs : p = Join(d, n)

\* The calls that wrap a file in banners: those of the body files.
BodyCalls == {k \in 1..Len(calls) : ~calls[k].disable_headers}

\* How many times name n is emitted as a body file.
BodyCount(n) ==
    Cardinality({k \in BodyCalls : calls[k].file_name = Join(WorkDir, n)})

\* C1: in a merge run the output file is opened at most once, is left as it
\* was unless it is opened, and is opened only when the output file and the
\* working directory exist, every name of explicitOrder is a regular file
\* directly under the working directory, and the header and the footer are
\* not missing.
C1_OpenedOnlyAfterValidation ==
    /\ out.opens <= 1
    /\ out.opens = 0 => out.content = <<LineOld>>
    /\ out.opens > 0 =>
        /\ MergeRun
        /\ PathKind(fs, config["output"]) # "absent"
        /\ PathKind(fs, WorkDir) = "dir"
        /\ \A k \in 1..Len(ExplicitOrder) :
               /\ ExplicitOrder[k] \in Names
               /\ fs.entries[ExplicitOrder[k]] = "file"
        /\ config["header"] # None =>
               PathKind(fs, Join(WorkDir, config["header"])) # "absent"
        /\ config["footer"] # None =>
               PathKind(fs, Join(WorkDir, config["footer"])) # "absent"

C3_MatchingFilesEmitted ==
    Returned =>
        \A n \in Names :
            (/\ fs.entries[n] = "file"
             /\ Search(config["file_regex"], n)
             /\ n # config["header"] /\ n # config["footer"])
            => BodyCount(n) = IF Listed(n) > 1 THEN Listed(n) ELSE 1

\* A complete merge, under a pattern that not every name matches, in which
\* one matching file is listed twice and emitted twice and another is not
\* listed and emitted once.
C3_Witness ==
    /\ Returned
    /\ config["file_regex"] = PyRegex
    /\ \E n, m \in Names :
           /\ Listed(n) = 2 /\ BodyCount(n) = 2
           /\ Listed(m) = 0 /\ BodyCount(m) = 1

\* C4: when a merge is complete, every line of the header is written; a
\* line of a body file, and a line of the footer, is written if and only if
\* the exclude pattern matches nowhere in it, whatever the other lines are.
C4_LineFiltering ==
    Returned =>
        \A k \in 1..Len(calls) :
            LET c == calls[k]
                lines == ReadLines(fs, c.file_name)
                Passes(line) == ~Search(config["exclude_line_regex"], line)
                isHeader == k = 1 /\ config["header"] # None
                isFooter == k = Len(calls) /\ config["footer"] # None
            IN IF isHeader THEN c.written = lines
               ELSE IF isFooter THEN c.written = SelectSeq(lines, Passes)
               ELSE /\ Len(c.written) >= 6
                    /\ SubSeq(c.written, 3, Len(c.written) - 4) = SelectSeq(lines, Passes)

\* A complete merge of a header, a body file and a footer that hold a line
\* the pattern matches past its first character and a line it does not
\* match: the header keeps both, the body file and the footer only one.
C4_Witness ==
    /\ Returned
    /\ Len(calls) = 3
    /\ config["header"] # None /\ config["footer"] # None
    /\ config["exclude_line_regex"] = ImportRegex
    /\ ReadLines(fs, calls[1].file_name) = <<LineIndented, LineCode>>
    /\ calls[1].written = <<LineIndented, LineCode>>
    /\ SubSeq(calls[2].written, 3, Len(calls[2].written) - 4) = <<LineCode>>
    /\ calls[3].written = <<LineCode>>

\* C5: once the command line is copied into the configuration, every option
\* holds the command line's value when one is given, else the settings
\* file's value when it has one, else the default.
C5_Layering ==
    pc = "debug" =>
        \A k \in Keys :
            config[k] = IF arguments.opts[k] # None THEN arguments.opts[k]
                        ELSE IF conf.exists /\ conf.values[k] # None THEN conf.values[k]
                        ELSE ConfigDefaults[k]

\* Banner b is the prefix followed only by the pad character, and is as
\* long as the longer of the width and the prefix.
BannerShape(b, prefix, width, pad) ==
    /\ Len(b) = Max(width, Len(prefix))
    /\ SubSeq(b, 1, Len(prefix)) = prefix
    /\ \A k \in (Len(prefix) + 1)..Len(b) : b[k] = pad

\* The banners of every body file written so far have the shape above, for
\* the prefixes that name the file by its bare name, or else by its path.
BannersNameFile(bare) ==
    \A k \in BodyCalls :
        LET c == calls[k]
            width == ToInt(config["separator_length"])
            Named(p) == IF bare THEN BareName(p) ELSE p
        IN /\ Len(c.written) >= 2 =>
                  BannerShape(c.written[2],
                              config["comment"] \o FilePrefix \o Named(c.file_name) \o Quote,
                              width, config["separator_start"][1])
           /\ c.exc = "none" =>
                  BannerShape(c.written[Len(c.written)],
                              config["comment"] \o EndPrefix \o Named(c.file_name) \o Quote,
                              width, config["separator_end"][1])

\* C6, as stated: the banners name the file without its directory.
C6_BannerNamesBareFile == BannersNameFile(TRUE)

\* C6, amended: the banners name the file by its path, the working
\* directory joined with the file's name; each is that prefix followed only
\* by its pad character, of length max(width, length of the prefix).
C6_BannerNamesPath == BannersNameFile(FALSE)

\* A body file written whole under a width between the lengths of its two
\* prefixes: the start banner is padded, the end banner is longer than the
\* width and not cut.
C6_Witness ==
    \E k \in BodyCalls :
        /\ calls[k].exc = "none"
        /\ Len(calls[k].written[2]) = ToInt(config["separator_length"])
        /\ calls[k].written[2][Len(calls[k].written[2])] = config["separator_start"][1]
        /\ Len(calls[k].written[Len(calls[k].written)]) > ToInt(config["separator_length"])

\* C7: a run with --debug or --write ends successfully, without opening or
\* changing the output file and without reading a file to merge; with
\* --debug the settings file is not written.
C7_DebugAndWriteExit ==
    (pc = "done" /\ (arguments.debug \/ arguments.write)) =>
        /\ result.kind = "exit_0"
        /\ out = [opens |-> 0, content |-> <<LineOld>>]
        /\ calls = <<>>
        /\ arguments.debug => conf.writes = 0

\* The run has made the checks of get_parameters_from_config: it is a merge
\* run past that call.  (A run that an exception ended inside
\* copy_parser_arguments_to_config never came to them.)
ValidationRan ==
    /\ MergeRun
    /\ pc \notin {"start", "copy", "debug", "write", "parameters"}
    /\ ~(pc = "done" /\ result.kind = "TypeError")

C9_OnlyMatchingFilesEmitted ==
    \A k \in BodyCalls :
        Len(calls[k].written) > 0 =>
            Search(config["file_regex"], BareName(calls[k].file_name))

\* C10, as stated: the header and the footer are never emitted as body
\* files, and no file is emitted twice.
C10_NoFileTwice ==
    /\ \A k \in BodyCalls :
           /\ calls[k].file_name # Join(WorkDir, config["header"])
           /\ calls[k].file_name # Join(WorkDir, config["footer"])
    /\ \A k, m \in 1..Len(calls) : calls[k].file_name = calls[m].file_name => k = m

\* C10, amended: the header and the footer are never emitted as body files;
\* a file is emitted as a body file more than once only when explicitOrder
\* lists it more than once, and then once per listing; a file is emitted
\* without banners at most once as the header and once as the footer.
C10_HeaderFooterNeverBody ==
    /\ \A k \in BodyCalls :
           /\ calls[k].file_name # Join(WorkDir, config["header"])
           /\ calls[k].file_name # Join(WorkDir, config["footer"])
    /\ \A n \in Names : BodyCount(n) <= Max(1, Listed(n))
    /\ \A k, m \in 1..Len(calls) :
           (k < m /\ calls[k].file_name = calls[m].file_name) =>
               \/ k \in BodyCalls /\ m \in BodyCalls
               \/ /\ k = 1 /\ pc = "done" /\ m = Len(calls)
                  /\ config["header"] = config["footer"]

\* A complete merge whose header and footer both match the include
\* pattern, whose header is listed twice in explicitOrder, and that emits
\* another file as a body file.
C10_Witness ==
    /\ Returned
    /\ config["header"] = NameH /\ config["footer"] = NameB
    /\ Search(config["file_regex"], NameH) /\ Search(config["file_regex"], NameB)
    /\ Listed(NameH) = 2
    /\ BodyCount(NameH) = 0 /\ BodyCount(NameB) = 0 /\ BodyCount(NameA) = 1
====
